---- MODULE Spec2Model ----
(***************************************************************************)
(* TriggerDagRunOperator (airflow/operators/trigger_dagrun.py): one task   *)
(* triggers a run of another DAG, resolves an "already exists" conflict by *)
(* reset / skip / re-raise, publishes the run's identity to XCom and, when *)
(* asked, waits for the run either in a blocking poll loop or by deferring *)
(* to a DagStateTrigger and classifying again in execute_complete.         *)
(*                                                                         *)
(* Python lists of states are modelled as sets (only membership and        *)
(* concatenation are used on them).  Datetimes are the integers of Dates,  *)
(* 0 stands for None; a logical_date given as a string stands for the      *)
(* datetime timezone.parse makes of it.  A run id is a record [kind, v]:   *)
(* kind "explicit" for a caller-supplied id, kind "manual" for             *)
(* DagRun.generate_run_id(MANUAL, date).  The DagRun table, dag.clear, the *)
(* scheduler and the DagStateTrigger are collaborators of the operator.    *)
(***************************************************************************)
EXTENDS Integers, Sequences, FiniteSets, TLC

VARIABLES
    store,       \* the DagRun table: a set of run records
    dag_model,   \* what DagModel.get_current returned to this task
    op,          \* the operator's fields after __init__
    pc,          \* where the task instance is
    parsed_logical_date,  \* the local parsed_logical_date of execute
    run_id,      \* the local run_id of execute
    dag_run,     \* the local dag_run of execute / execute_complete
    state,       \* the local state of the poll loop / execute_complete
    outcome,     \* how the task ended ("none" while it has not)
    trace,       \* collaborator calls made by this task, in order
    clears,      \* arguments of the dag.clear calls of this task
    xcom,        \* <<key, value>> pairs pushed by this task, in order
    watch,       \* trigger handed to self.defer by this task (sequence)
    event,       \* the TriggerEvent payload delivered to execute_complete
    observed,    \* run states read by the poll loop / trigger / re-fetch
    created,     \* runs created by this task's trigger_dag call
    raised       \* e.dag_run of the DagRunAlreadyExists this task caught

vars == <<store, dag_model, op, pc, parsed_logical_date, run_id, dag_run, state,
          outcome, trace, clears, xcom, watch, event, observed, created, raised>>

----------------------------------------------------------------------------
(* Bounds of the model *)

MaxPolls == 3

(* Program constants *)

DefaultPokeInterval == 60

XCOM_LOGICAL_DATE_ISO == "trigger_logical_date_iso"

XCOM_RUN_ID == "trigger_run_id"

----------------------------------------------------------------------------
(* Value domains *)

QUEUED == "queued"
RUNNING == "running"
SUCCESS == "success"
FAILED == "failed"

DagRunState == {QUEUED, RUNNING, SUCCESS, FAILED}

TargetDag == "T1"

Dates == {1, 2}

NoDate == 0

ExplicitRunIds == {1}

NoRunId == 0

\* logical_date arguments: None (utcnow is used) or a given datetime
LogicalDateArgs == {NoDate} \cup Dates

\* conf payloads: None, a JSON-serializable dict, a dict holding a value
\* json.dumps rejects with TypeError
JsonConfs == {"none", "dict"}

BadConf == "unserializable"

Confs == JsonConfs \cup {BadConf}

\* an allowed_states / failed_states argument: None, or a list of states
NoStates == [given |-> FALSE, states |-> {}]

States(list) == [given |-> TRUE, states |-> list]

AllowedArgs == {NoStates, States({}), States({SUCCESS}), States({RUNNING})}

FailedArgs == {NoStates, States({}), States({FAILED}), States({SUCCESS})}

\* what the task keeps of a DagRun object between refreshes: its identity
Identity(r) == [dag_id |-> r.dag_id, run_id |-> r.run_id, logical_date |-> r.logical_date]

NoRun == [dag_id |-> "", run_id |-> [kind |-> "none", v |-> 0], logical_date |-> NoDate]

NoEvent == [execution_dates |-> <<>>]

----------------------------------------------------------------------------
(* __init__ *)

DefaultStatesNoneOnly(arg, default) == IF arg.given THEN arg.states ELSE default

\* "if allowed_states:" is false for None and for the empty list
DefaultStates(arg, default) ==
    IF arg.given /\ arg.states # {} THEN arg.states ELSE default

NewOperator(trigger_run_id, conf, logical_date, reset, wait, allowed, failed, skip, deferrable) ==
    [ trigger_dag_id           |-> TargetDag,
      trigger_run_id           |-> trigger_run_id,
      conf                     |-> conf,
      reset_dag_run            |-> reset,
      wait_for_completion      |-> wait,
      poke_interval            |-> DefaultPokeInterval,
      allowed_states           |-> DefaultStates(allowed, {SUCCESS}),
      failed_states            |-> DefaultStates(failed, {FAILED}),
      skip_when_already_exists |-> skip,
      defer                    |-> deferrable,
      logical_date             |-> logical_date ]

\* the operators a DAG author can construct from the argument values above
Operators ==
    { NewOperator(r, c, d, rs, w, a, f, s, df) :
        r \in ExplicitRunIds \cup {NoRunId}, c \in Confs, d \in LogicalDateArgs,
        rs \in BOOLEAN, w \in BOOLEAN, a \in AllowedArgs, f \in FailedArgs,
        s \in BOOLEAN, df \in BOOLEAN }

\* no operator constructed yet: every argument at its default
NoOperator ==
    NewOperator(NoRunId, "none", NoDate, FALSE, FALSE, NoStates, NoStates, FALSE, FALSE)

----------------------------------------------------------------------------
(* Pieces of execute() *)

ParseLogicalDate(logical_date, now) ==
    IF logical_date # NoDate THEN logical_date ELSE now

JsonSerializableUnchecked(conf) == TRUE

\* json.dumps(self.conf) raises no TypeError
JsonSerializable(conf) == conf \in JsonConfs

GenerateRunId(date) == [kind |-> "manual", v |-> date]

ResolveRunIdAlwaysGenerated(trigger_run_id, date) == GenerateRunId(date)

ResolveRunId(trigger_run_id, date) ==
    IF trigger_run_id # NoRunId
    THEN [kind |-> "explicit", v |-> trigger_run_id]
    ELSE GenerateRunId(date)

IsoFormat(date) == [kind |-> "iso", v |-> date]

\* runs that make trigger_dag raise DagRunAlreadyExists
Duplicates(runs, dag_id, rid, date) ==
    { r \in runs : r.dag_id = dag_id /\ (r.run_id = rid \/ r.logical_date = date) }

\* the run trigger_dag creates
NewRun(dag_id, rid, conf, date) ==
    [dag_id |-> dag_id, run_id |-> rid, logical_date |-> date,
     state |-> QUEUED, conf |-> conf]

ConflictBranchSkipFirst(reset, skip) ==
    IF skip THEN "skip" ELSE IF reset THEN "reset" ELSE "raise"

ConflictBranchAlwaysSkip(reset, skip) ==
    IF reset THEN "reset" ELSE "skip"

ConflictBranchNoSkip(reset, skip) ==
    IF reset THEN "reset" ELSE "raise"

\* the except-handler of execute: which way a DagRunAlreadyExists goes
ConflictBranch(reset, skip) ==
    IF reset THEN "reset" ELSE IF skip THEN "skip" ELSE "raise"

DagModelMissingUnchecked(current) == FALSE

\* the check on what DagModel.get_current returned
DagModelMissing(current) == current = "none"

ClearCallOpenEnded(dag_id, run) ==
    [dag_id |-> dag_id, start_date |-> run.logical_date, end_date |-> run.logical_date + 1]

\* the arguments of dag.clear on the reset path
ClearCall(dag_id, run) ==
    [dag_id |-> dag_id, start_date |-> run.logical_date, end_date |-> run.logical_date]

\* dag.clear: runs of the dag inside the window go back to QUEUED
ApplyClear(runs, call) ==
    { IF r.dag_id = call.dag_id /\ call.start_date <= r.logical_date
                                /\ r.logical_date <= call.end_date
      THEN [r EXCEPT !.state = QUEUED] ELSE r : r \in runs }

ResetEffectRewritingConf(runs, o, e) ==
    { IF Identity(r) = e THEN [r EXCEPT !.state = QUEUED, !.conf = o.conf] ELSE r : r \in runs }

\* what the reset path does to the DagRun table: the one dag.clear call
ResetEffect(runs, o, e) == ApplyClear(runs, ClearCall(o.trigger_dag_id, e))

XComPushesRunIdOnly(run) == << <<XCOM_RUN_ID, run.run_id>> >>

\* the two ti.xcom_push calls of execute
XComPushes(run) ==
    << <<XCOM_LOGICAL_DATE_ISO, IsoFormat(run.logical_date)>>,
       <<XCOM_RUN_ID, run.run_id>> >>

DagStateTriggerAllowedOnly(o, run) ==
    [dag_id |-> o.trigger_dag_id,
     states |-> o.allowed_states,
     execution_dates |-> <<run.logical_date>>,
     poll_interval |-> o.poke_interval]

DagStateTriggerRequestDate(o, run) ==
    [dag_id |-> o.trigger_dag_id,
     states |-> o.allowed_states \cup o.failed_states,
     execution_dates |-> <<ParseLogicalDate(o.logical_date, run.logical_date)>>,
     poll_interval |-> o.poke_interval]

\* the trigger execute hands to self.defer
DagStateTrigger(o, run) ==
    [dag_id |-> o.trigger_dag_id,
     states |-> o.allowed_states \cup o.failed_states,
     execution_dates |-> <<run.logical_date>>,
     poll_interval |-> o.poke_interval]

AfterPublishDeferAnyway(o) ==
    IF o.defer THEN "defer" ELSE IF o.wait_for_completion THEN "poll" ELSE "return"

\* what execute does once the identity is published; self.defer hands the
\* trigger over and suspends the task, so the loop below it is not entered
AfterPublish(o) ==
    IF o.wait_for_completion
    THEN IF o.defer THEN "defer" ELSE "poll"
    ELSE "return"

TailCallsDeferFirst(next) ==
    (IF next = "defer" THEN <<"defer">> ELSE <<>>) \o <<"xcom_push", "xcom_push">>

\* the calls execute makes from the publication on, before any poll
TailCalls(next) ==
    <<"xcom_push", "xcom_push">> \o (IF next = "defer" THEN <<"defer">> ELSE <<>>)

\* one pass of the checks at the end of the poll loop body
PollVerdictFailedOnly(run_state, o) ==
    IF run_state \in o.failed_states THEN "Failure" ELSE "continue"

PollVerdictAllowedFirst(run_state, o) ==
    IF run_state \in o.allowed_states THEN "Success"
    ELSE IF run_state \in o.failed_states THEN "Failure"
    ELSE "continue"

PollVerdict(run_state, o) ==
    IF run_state \in o.failed_states THEN "Failure"
    ELSE IF run_state \in o.allowed_states THEN "Success"
    ELSE "continue"

ResumeVerdictAllowedFirst(run_state, o) ==
    IF run_state \in o.allowed_states THEN "Success"
    ELSE IF run_state \in o.failed_states THEN "Failure"
    ELSE "Failure"

ResumeVerdictLenient(run_state, o) ==
    IF run_state \in o.failed_states THEN "Failure" ELSE "Success"

\* the checks of execute_complete
ResumeVerdict(run_state, o) ==
    IF run_state \in o.failed_states THEN "Failure"
    ELSE IF run_state \in o.allowed_states THEN "Success"
    ELSE "Failure"

\* the poll loop of execute, run on the states its refreshes return in turn
RECURSIVE BlockingWait(_, _)
BlockingWait(seq, o) ==
    IF seq = <<>> THEN "none"
    ELSE LET verdict == PollVerdict(Head(seq), o)
         IN  IF verdict = "continue" THEN BlockingWait(Tail(seq), o) ELSE verdict

\* the deferred wait on the same reads: the trigger fires on the first state
\* of allowed_states + failed_states, execute_complete classifies the read
\* after it (the run as it is then; unchanged if nothing was reported since)
RECURSIVE DeferredWait(_, _)
DeferredWait(seq, o) ==
    IF seq = <<>> THEN "none"
    ELSE IF Head(seq) \in o.allowed_states \cup o.failed_states
         THEN ResumeVerdict(IF Len(seq) > 1 THEN seq[2] ELSE seq[1], o)
         ELSE DeferredWait(Tail(seq), o)

----------------------------------------------------------------------------
Init ==
    /\ store = {}
    /\ dag_model = "unset"
    /\ op = NoOperator
    /\ pc = "idle"
    /\ parsed_logical_date = NoDate
    /\ run_id = NoRun.run_id
    /\ dag_run = NoRun
    /\ state = "none"
    /\ outcome = "none"
    /\ trace = <<>>
    /\ clears = <<>>
    /\ xcom = <<>>
    /\ watch = <<>>
    /\ event = NoEvent
    /\ observed = <<>>
    /\ created = {}
    /\ raised = NoRun

\* the part of execute() after a run is in hand (created or reused)
Publish(run, tr, cl, st, new, exc, dm) ==
    LET next == AfterPublish(op) IN
    /\ store' = st
    /\ dag_run' = run
    /\ clears' = cl
    /\ created' = new
    /\ raised' = exc
    /\ dag_model' = dm
    /\ xcom' = XComPushes(run)
    /\ watch' = IF next = "defer" THEN <<DagStateTrigger(op, run)>> ELSE <<>>
    /\ trace' = tr \o TailCalls(next)
    /\ pc' = CASE next = "defer" -> "deferred"
               [] next = "poll" -> "polling"
               [] OTHER -> "done"
    /\ outcome' = IF next = "return" THEN "Success" ELSE "none"

\* execute() ends by raising
Raise(out, tr, exc, dm) ==
    /\ pc' = "done"
    /\ outcome' = out
    /\ trace' = tr
    /\ raised' = exc
    /\ dag_model' = dm
    /\ UNCHANGED <<store, dag_run, clears, xcom, watch, created>>

Execute ==
    /\ pc = "execute"
    /\ \E now \in Dates : parsed_logical_date' = ParseLogicalDate(op.logical_date, now)
    /\ IF ~JsonSerializable(op.conf)
       THEN /\ run_id' = NoRun.run_id
            /\ Raise("InvalidInput", <<>>, NoRun, "unset")
       ELSE /\ run_id' = ResolveRunId(op.trigger_run_id, parsed_logical_date')
            /\ LET dups == Duplicates(store, op.trigger_dag_id, run_id', parsed_logical_date')
                   tr == <<"trigger_dag">>
               IN
               IF dups = {}
               THEN LET new == NewRun(op.trigger_dag_id, run_id', op.conf, parsed_logical_date')
                    IN  Publish(Identity(new), tr, <<>>, store \cup {new},
                                {Identity(new)}, NoRun, "unset")
               ELSE \E d \in dups, current \in {"row", "none"} :
                   LET e == Identity(d)
                       branch == ConflictBranch(op.reset_dag_run, op.skip_when_already_exists)
                   IN
                   CASE branch = "reset" ->
                           IF DagModelMissing(current)
                           THEN Raise("DagNotFound", tr \o <<"get_current">>, e, current)
                           ELSE LET call == ClearCall(op.trigger_dag_id, e)
                                IN  Publish(e, tr \o <<"get_current", "get_dag", "clear">>,
                                            <<call>>, ResetEffect(store, op, e), {}, e, current)
                     [] branch = "skip" -> Raise("Skip", tr, e, "unset")
                     [] OTHER -> Raise("AlreadyExists", tr, e, "unset")
    /\ UNCHANGED <<op, state, event, observed>>

\* one iteration of the while-loop of execute(): sleep, refresh, classify
PollLoop ==
    /\ pc = "polling"
    /\ Len(observed) < MaxPolls
    /\ LET fresh == CHOOSE r \in store : r.dag_id = dag_run.dag_id /\ r.run_id = dag_run.run_id
           verdict == PollVerdict(fresh.state, op)
       IN
       /\ dag_run' = Identity(fresh)
       /\ state' = fresh.state
       /\ observed' = Append(observed, fresh.state)
       /\ trace' = trace \o <<"sleep", "refresh_from_db">>
       /\ pc' = IF verdict = "continue" THEN "polling" ELSE "done"
       /\ outcome' = IF verdict = "continue" THEN "none" ELSE verdict
    /\ UNCHANGED <<store, dag_model, op, parsed_logical_date, run_id, clears, xcom, watch,
                   event, created, raised>>

\* runs the trigger counts: of its dag, at one of its dates, in one of its states
Matching(runs, w) ==
    { r \in runs : /\ r.dag_id = w.dag_id
                   /\ r.state \in w.states
                   /\ \E i \in 1..Len(w.execution_dates) : r.logical_date = w.execution_dates[i] }

\* one check of the DagStateTrigger while the task is deferred
TriggerRun ==
    /\ pc = "deferred"
    /\ Len(observed) < MaxPolls
    /\ LET w == watch[1]
           seen == CHOOSE r \in store : r.dag_id = w.dag_id /\ r.logical_date = w.execution_dates[1]
       IN
       /\ observed' = Append(observed, seen.state)
       /\ IF Cardinality(Matching(store, w)) = Len(w.execution_dates)
          THEN /\ event' = [execution_dates |-> w.execution_dates]
               /\ pc' = "resumed"
          ELSE UNCHANGED <<event, pc>>
    /\ UNCHANGED <<store, dag_model, op, parsed_logical_date, run_id, dag_run, state,
                   outcome, trace, clears, xcom, watch, created, raised>>

ExecuteComplete ==
    /\ pc = "resumed"
    /\ LET provided_logical_date == event.execution_dates[1]
           found == { r \in store : r.dag_id = op.trigger_dag_id
                                    /\ r.logical_date = provided_logical_date }
       IN
       IF found = {}
       THEN /\ outcome' = "Failure"
            /\ UNCHANGED <<dag_run, state, observed>>
       ELSE \E r \in found :
            /\ dag_run' = Identity(r)
            /\ state' = r.state
            /\ observed' = Append(observed, r.state)
            /\ outcome' = ResumeVerdict(r.state, op)
    /\ trace' = Append(trace, "select")
    /\ pc' = "done"
    /\ UNCHANGED <<store, dag_model, op, parsed_logical_date, run_id, clears, xcom, watch,
                   event, created, raised>>

\* the scheduler advances a run of the target dag
NextStates(run_state) ==
    CASE run_state = QUEUED -> {RUNNING}
      [] run_state = RUNNING -> {SUCCESS, FAILED}
      [] OTHER -> {}

SchedulerStep ==
    /\ \E r \in store : \E s \in NextStates(r.state) :
          store' = (store \ {r}) \cup {[r EXCEPT !.state = s]}
    /\ UNCHANGED <<dag_model, op, pc, parsed_logical_date, run_id, dag_run, state, outcome, trace, clears, xcom,
                   watch, event, observed, created, raised>>

\* __init__ of the next task's operator, with the caller's arguments
Construct ==
    /\ pc = "idle"
    /\ op' \in Operators
    /\ pc' = "execute"
    /\ UNCHANGED <<store, dag_model, parsed_logical_date, run_id, dag_run, state, outcome,
                   trace, clears, xcom, watch, event, observed, created, raised>>

\* the task instance is over; the worker takes up the next one
Finish ==
    /\ pc = "done"
    /\ pc' = "idle"
    /\ op' = NoOperator
    /\ dag_model' = "unset"
    /\ parsed_logical_date' = NoDate
    /\ run_id' = NoRun.run_id
    /\ dag_run' = NoRun
    /\ state' = "none"
    /\ outcome' = "none"
    /\ trace' = <<>>
    /\ clears' = <<>>
    /\ xcom' = <<>>
    /\ watch' = <<>>
    /\ event' = NoEvent
    /\ observed' = <<>>
    /\ created' = {}
    /\ raised' = NoRun
    /\ UNCHANGED store

Next ==
    \/ Construct
    \/ Execute
    \/ PollLoop
    \/ TriggerRun
    \/ ExecuteComplete
    \/ SchedulerStep
    \/ Finish

Spec == Init /\ [][Next]_vars

\* operators that wait in the poll loop of execute
BlockingOperators ==
    { o \in Operators : /\ o.wait_for_completion /\ ~o.defer
                        /\ o.conf = "none" /\ ~o.skip_when_already_exists }

ConstructBlocking ==
    /\ pc = "idle"
    /\ op' \in BlockingOperators
    /\ pc' = "execute"
    /\ UNCHANGED <<store, dag_model, parsed_logical_date, run_id, dag_run, state, outcome,
                   trace, clears, xcom, watch, event, observed, created, raised>>

\* a further iteration of the while-loop once MaxPolls reads are recorded:
\* observed keeps the last MaxPolls reads, trace the calls that led to them
PollOn ==
    /\ pc = "polling"
    /\ Len(observed) = MaxPolls
    /\ LET fresh == CHOOSE r \in store : r.dag_id = dag_run.dag_id /\ r.run_id = dag_run.run_id
           verdict == PollVerdict(fresh.state, op)
       IN
       /\ dag_run' = Identity(fresh)
       /\ state' = fresh.state
       /\ observed' = Append(Tail(observed), fresh.state)
       /\ pc' = IF verdict = "continue" THEN "polling" ELSE "done"
       /\ outcome' = IF verdict = "continue" THEN "none" ELSE verdict
    /\ UNCHANGED <<store, dag_model, op, parsed_logical_date, run_id, trace, clears, xcom,
                   watch, event, created, raised>>

BlockingNext ==
    \/ ConstructBlocking
    \/ Execute
    \/ PollLoop
    \/ PollOn
    \/ SchedulerStep
    \/ Finish

\* the worker runs the loop: an iteration that can be made is made
BlockingSpec ==
    Init /\ [][BlockingNext]_vars /\ WF_vars(PollLoop) /\ WF_vars(PollOn)

\* a DagRun row is deleted after the trigger fired, before the task resumes
DeleteRun ==
    /\ pc = "resumed"
    /\ \E r \in store : store' = store \ {r}
    /\ UNCHANGED <<dag_model, op, pc, parsed_logical_date, run_id, dag_run, state, outcome,
                   trace, clears, xcom, watch, event, observed, created, raised>>

NextWithDeletion == Next \/ DeleteRun

SpecWithDeletion == Init /\ [][NextWithDeletion]_vars

----------------------------------------------------------------------------
(* Vocabulary of the properties *)

\* positions of a collaborator call in this task's trace
Calls(name) == { i \in 1..Len(trace) : trace[i] = name }

\* positions of the calls that belong to waiting
WaitCalls == Calls("sleep") \cup Calls("refresh_from_db") \cup Calls("defer") \cup Calls("select")

\* execute() has run in this task
Executed == pc \notin {"idle", "execute"}

\* trigger_dag raised DagRunAlreadyExists in this task
Conflict == Executed /\ raised # NoRun

\* the task holds a run: newly created, or an existing one reused by reset
TriggerSucceeded ==
    Executed /\ (created # {} \/ (Conflict /\ op.reset_dag_run /\ dag_model = "row"))

ResetPathTaken == Calls("get_current") # {}

SkipTaken == outcome = "Skip"

ConflictPropagated == outcome = "AlreadyExists"

\* the task takes no step of waiting
NoWaiting == WaitCalls = {} /\ watch = <<>> /\ observed = <<>>

----------------------------------------------------------------------------
(* C1: on a DagRunAlreadyExists exactly one of the reset path, the Skip     *)
(* outcome and the propagated error happens, and which one is a function of *)
(* (reset_dag_run, skip_when_already_exists): reset wins whatever skip is.  *)
(* The reset path clears once and reuses the run, unless it stops at the    *)
(* missing DagModel; the other two paths clear nothing.                     *)
ConflictPolicyExclusive ==
    /\ Conflict =>
        /\ ResetPathTaken <=> op.reset_dag_run
        /\ SkipTaken <=> (~op.reset_dag_run /\ op.skip_when_already_exists)
        /\ ConflictPropagated <=> (~op.reset_dag_run /\ ~op.skip_when_already_exists)
        /\ ResetPathTaken =>
              \/ Len(clears) = 1 /\ dag_run.run_id = raised.run_id
                                 /\ dag_run.logical_date = raised.logical_date
              \/ outcome = "DagNotFound" /\ clears = <<>>
        /\ ~ResetPathTaken => clears = <<>> /\ dag_run = NoRun
    /\ ~Conflict => ~ResetPathTaken /\ ~SkipTaken /\ ~ConflictPropagated

ConflictPolicyExclusiveWitness ==
    /\ Conflict
    /\ op.reset_dag_run /\ op.skip_when_already_exists
    /\ Len(clears) = 1
    /\ outcome # "Skip"

----------------------------------------------------------------------------
(* C4: whenever the trigger succeeded, the identity was pushed to XCom      *)
(* exactly once, as one logical-date entry and one run-id entry, and both   *)
(* pushes come before every sleep, refresh, defer and re-fetch.             *)
PublishedOnceBeforeWaiting ==
    TriggerSucceeded =>
        /\ Cardinality(Calls("xcom_push")) = 2
        /\ Len(xcom) = 2
        /\ Cardinality({ i \in 1..Len(xcom) : xcom[i][1] = XCOM_LOGICAL_DATE_ISO }) = 1
        /\ Cardinality({ i \in 1..Len(xcom) : xcom[i][1] = XCOM_RUN_ID }) = 1
        /\ \A i \in Calls("xcom_push") : \A j \in WaitCalls : i < j

PublishedOnceBeforeWaitingWitness ==
    /\ TriggerSucceeded
    /\ Conflict
    /\ Calls("defer") # {}
    /\ Calls("select") # {}

----------------------------------------------------------------------------
(* C5: a conflict with reset_dag_run false and skip_when_already_exists     *)
(* true ends the task with the Skip outcome; nothing is cleared, nothing    *)
(* pushed to XCom, no trigger registered, no poll or sleep made.            *)
SkipDoesNothingElse ==
    (Conflict /\ ~op.reset_dag_run /\ op.skip_when_already_exists) =>
        /\ pc = "done"
        /\ outcome = "Skip"
        /\ outcome \notin {"Success", "Failure"}
        /\ clears = <<>>
        /\ xcom = <<>>
        /\ NoWaiting
        /\ trace = <<"trigger_dag">>
        /\ created = {}

SkipDoesNothingElseWitness ==
    /\ Conflict
    /\ ~op.reset_dag_run /\ op.skip_when_already_exists
    /\ op.wait_for_completion
    /\ outcome = "Skip"

----------------------------------------------------------------------------
\* the waiter (poll loop or execute_complete) has read the run's state
WaiterRead == Executed /\ state # "none"

\* C2 as the spec words it: Success exactly on allowed_states, Failure
\* exactly on failed_states minus allowed_states, more waiting exactly on
\* the rest.
ClassificationPartitionAsClaimed ==
    WaiterRead =>
        /\ outcome = "Success" <=> state \in op.allowed_states
        /\ outcome = "Failure" <=> (state \in op.failed_states /\ state \notin op.allowed_states)
        /\ pc = "polling" <=> state \notin op.allowed_states \cup op.failed_states

(* C2: the state the waiter read decides the outcome with failed_states     *)
(* tested first: Failure iff the state is in failed_states (also when it is *)
(* in allowed_states too), Success iff it is in allowed_states and not in   *)
(* failed_states.  On a state in neither list the poll loop goes on         *)
(* polling, while execute_complete fails.                                   *)
ClassificationFailedFirst ==
    WaiterRead =>
        /\ outcome = "Success" <=>
              (state \in op.allowed_states /\ state \notin op.failed_states)
        /\ ~op.defer =>
              /\ outcome = "Failure" <=> state \in op.failed_states
              /\ (pc = "polling" /\ outcome = "none") <=>
                    state \notin op.allowed_states \cup op.failed_states
        /\ op.defer =>
              /\ outcome = "Failure" <=>
                    (state \in op.failed_states \/ state \notin op.allowed_states)
              /\ pc = "done"

ClassificationFailedFirstWitness ==
    /\ WaiterRead
    /\ state \in op.allowed_states \cap op.failed_states
    /\ outcome = "Failure"

----------------------------------------------------------------------------
\* a task that waited has ended
WaitEnded == Executed /\ op.wait_for_completion /\ pc = "done" /\ state # "none"

\* C3 as the spec words it: whichever way this task waited, the poll loop
\* and the deferred wait, run on the states this task read, both end as it did.
ModeEquivalenceAsClaimed ==
    WaitEnded =>
        /\ outcome = BlockingWait(observed, op)
        /\ outcome = DeferredWait(observed, op)

(* C3: the poll loop and the deferred wait, run on the states a task read,  *)
(* end with the same outcome, the task's own, provided the state that       *)
(* execute_complete re-fetches is the state the trigger fired on.           *)
ModeEquivalenceOnStableState ==
    (WaitEnded /\ (op.defer => observed[Len(observed)] = observed[Len(observed) - 1])) =>
        /\ outcome = BlockingWait(observed, op)
        /\ outcome = DeferredWait(observed, op)

ModeEquivalenceOnStableStateWitness ==
    /\ WaitEnded
    /\ op.defer
    /\ Len(observed) = 3
    /\ observed[3] = observed[2]
    /\ outcome = "Success"

----------------------------------------------------------------------------
\* the conflict was met with reset_dag_run and the DagModel row was found
ResetWithDefinition == Conflict /\ op.reset_dag_run /\ dag_model = "row"

\* the task has entered the wait phase of execute
WaitEntered == pc \in {"polling", "deferred", "resumed"} \/ WaitCalls # {}

(* C6: on a conflict with reset_dag_run the definition is looked up once;   *)
(* with the definition found there is exactly one dag.clear call, its       *)
(* window starting and ending at the existing run's logical date, the       *)
(* existing run is the task's dag_run (none is created), and the task goes  *)
(* on to wait iff wait_for_completion is set.                               *)
ResetClearsExactWindow ==
    /\ (Conflict /\ op.reset_dag_run) => Cardinality(Calls("get_current")) = 1
    /\ ResetWithDefinition =>
        /\ \E r \in store : Identity(r) = raised
        /\ clears = << [dag_id |-> op.trigger_dag_id,
                        start_date |-> raised.logical_date,
                        end_date |-> raised.logical_date] >>
        /\ Cardinality(Calls("clear")) = 1
        /\ dag_run = raised
        /\ created = {}
        /\ WaitEntered <=> op.wait_for_completion
        /\ ~op.wait_for_completion => pc = "done" /\ outcome = "Success"

ResetClearsExactWindowWitness ==
    /\ ResetWithDefinition
    /\ Len(clears) = 1
    /\ op.wait_for_completion
    /\ raised.logical_date # parsed_logical_date
    /\ pc = "polling"

----------------------------------------------------------------------------
\* the run of the target dag that already has the operator's explicit run id
RunsWithRunId == { r \in store : /\ r.dag_id = op.trigger_dag_id
                                 /\ r.run_id = [kind |-> "explicit", v |-> op.trigger_run_id] }

\* execute() is about to trigger, without reset or skip, a run id that exists
RepeatedTrigger ==
    /\ pc = "execute"
    /\ op.trigger_run_id # NoRunId
    /\ op.conf # BadConf
    /\ ~op.reset_dag_run /\ ~op.skip_when_already_exists
    /\ RunsWithRunId # {}

DateFree(d) ==
    \A r \in store : (r.dag_id = op.trigger_dag_id /\ r.logical_date = d) => r \in RunsWithRunId

----------------------------------------------------------------------------
(* C8: with a conf json.dumps rejects, execute ends in the "conf parameter  *)
(* should be JSON Serializable" error having called no collaborator: no     *)
(* trigger_dag, no lookup, no clear, no push, and the store is untouched.   *)
InvalidConfFailsFast ==
    [][ (pc = "execute" /\ op.conf = BadConf /\ pc' # "execute") =>
            /\ pc' = "done"
            /\ outcome' = "InvalidInput"
            /\ trace' = <<>>
            /\ store' = store
            /\ created' = {}
            /\ clears' = <<>>
            /\ xcom' = <<>>
            /\ watch' = <<>> ]_vars

InvalidConfFailsFastWitness ==
    /\ pc = "done"
    /\ op.conf = BadConf
    /\ outcome = "InvalidInput"
    /\ store # {}
    /\ op.reset_dag_run

----------------------------------------------------------------------------
(* C9: on a conflict with reset_dag_run, when DagModel.get_current finds no *)
(* row the task ends in DagNotFound; nothing is cleared, nothing pushed to  *)
(* XCom and no wait is started.                                             *)
MissingDefinitionIsFatal ==
    (Conflict /\ op.reset_dag_run /\ dag_model = "none") =>
        /\ pc = "done"
        /\ outcome = "DagNotFound"
        /\ trace = <<"trigger_dag", "get_current">>
        /\ clears = <<>>
        /\ xcom = <<>>
        /\ NoWaiting

MissingDefinitionIsFatalWitness ==
    /\ Conflict
    /\ op.reset_dag_run
    /\ dag_model = "none"
    /\ op.wait_for_completion
    /\ outcome = "DagNotFound"

----------------------------------------------------------------------------
(* C10: with wait_for_completion false a successful trigger returns right   *)
(* after the two pushes: Success, no sleep, no refresh or read of the run's *)
(* state, no trigger registered, whatever deferrable is and whatever the    *)
(* run's state is or becomes.                                               *)
NoWaitReturnsAtOnce ==
    (TriggerSucceeded /\ ~op.wait_for_completion) =>
        /\ pc = "done"
        /\ outcome = "Success"
        /\ NoWaiting
        /\ state = "none"
        /\ Len(xcom) = 2
        /\ Len(trace) >= 2
        /\ trace[Len(trace)] = "xcom_push"
        /\ trace[Len(trace) - 1] = "xcom_push"

NoWaitReturnsAtOnceWitness ==
    /\ TriggerSucceeded
    /\ ~op.wait_for_completion
    /\ op.defer
    /\ outcome = "Success"
    /\ \E r \in store : Identity(r) = dag_run /\ r.state = FAILED

----------------------------------------------------------------------------
\* the task waits, or has waited, in the poll loop of execute
BlockingWaitEntered ==
    TriggerSucceeded /\ op.wait_for_completion /\ ~op.defer

\* the last call before the wait: the second xcom_push
PublishedAt == Len(trace) - 2 * Len(observed)

\* a state that ends the poll loop
Terminal(run_state) == run_state \in op.allowed_states \cup op.failed_states

(* C11: in the poll loop every iteration is a sleep followed by a refresh;  *)
(* no read before the last is in allowed_states or failed_states, and the   *)
(* loop has ended iff the last read is: Failure on a failed state, Success  *)
(* on an allowed one.  So on the reads running, running, success with the   *)
(* default lists the task ends in Success with the third refresh, and is    *)
(* still polling after the first and after the second.                      *)
StopsAtFirstTerminalPoll ==
    BlockingWaitEntered =>
        LET polls == Len(observed) IN
        /\ PublishedAt >= 2 /\ trace[PublishedAt] = "xcom_push"
        /\ \A i \in 1..polls :
              /\ trace[PublishedAt + 2 * i - 1] = "sleep"
              /\ trace[PublishedAt + 2 * i] = "refresh_from_db"
        /\ Cardinality(Calls("sleep")) = polls
        /\ Cardinality(Calls("refresh_from_db")) = polls
        /\ \A i \in 1..(polls - 1) : ~Terminal(observed[i])
        /\ pc = "done" <=> (polls > 0 /\ Terminal(observed[polls]))
        /\ pc # "done" => pc = "polling" /\ outcome = "none"
        /\ pc = "done" =>
              outcome = IF observed[polls] \in op.failed_states THEN "Failure" ELSE "Success"
        /\ (op.allowed_states = {SUCCESS} /\ op.failed_states = {FAILED}) =>
              /\ observed \in {<<RUNNING>>, <<RUNNING, RUNNING>>} => pc = "polling"
              /\ observed = <<RUNNING, RUNNING, SUCCESS>> =>
                    /\ pc = "done" /\ outcome = "Success"
                    /\ Cardinality(Calls("refresh_from_db")) = 3

StopsAtFirstTerminalPollWitness ==
    /\ BlockingWaitEntered
    /\ op.allowed_states = {SUCCESS} /\ op.failed_states = {FAILED}
    /\ observed = <<RUNNING, RUNNING, SUCCESS>>
    /\ outcome = "Success"
    /\ trace[Len(trace)] = "refresh_from_db"

----------------------------------------------------------------------------
\* the rows execute_complete's select finds for the event it was given
Refetched ==
    { r \in store : /\ r.dag_id = op.trigger_dag_id
                    /\ r.logical_date = event.execution_dates[1] }

(* C12: execute_complete decides from the row it selects by (trigger_dag_id, *)
(* the event's logical date) alone, whatever the trigger read before: no    *)
(* row gives Failure; a state of failed_states gives Failure; a state of    *)
(* allowed_states that is not a failed state gives Success; any other state *)
(* gives Failure.  The select is made once and its state is the one read.   *)
ResumeClassifiesFreshLookup ==
    [][ (pc = "resumed" /\ pc' = "done") =>
            /\ trace' = Append(trace, "select")
            /\ event.execution_dates = watch[1].execution_dates
            /\ Refetched = {} => outcome' = "Failure" /\ state' = state
            /\ \A r \in Refetched :
                  /\ state' = r.state
                  /\ r.state \in op.failed_states => outcome' = "Failure"
                  /\ (r.state \in op.allowed_states /\ r.state \notin op.failed_states) =>
                        outcome' = "Success"
                  /\ r.state \notin op.allowed_states \cup op.failed_states =>
                        outcome' = "Failure"
                  /\ (r.state = FAILED /\ FAILED \in op.failed_states) =>
                        outcome' = "Failure" ]_vars

\* the trigger last read an allowed state; the row is gone at the resume
ResumeClassifiesFreshLookupWitness ==
    /\ pc = "done"
    /\ Calls("select") # {}
    /\ Refetched = {}
    /\ observed # <<>>
    /\ observed[Len(observed)] \in op.allowed_states \ op.failed_states
    /\ outcome = "Failure"

----------------------------------------------------------------------------
\* a state the scheduler never moves a run out of
Final(run_state) == NextStates(run_state) = {}

(* C13: whenever the waiter has read a final state of the run that is in    *)
(* neither allowed_states nor failed_states, the wait has ended in Failure. *)
(* The poll loop of execute breaks this: it has no branch for such a state  *)
(* and goes on sleeping and refreshing.                                     *)
UnlistedFinalStateIsFatal ==
    (WaiterRead /\ Final(state) /\ ~Terminal(state)) =>
        pc = "done" /\ outcome = "Failure"

\* the poll loop has read the same unlisted final state twice and still polls
UnlistedFinalStatePolledAgain ==
    /\ BlockingWaitEntered
    /\ Len(observed) >= 2
    /\ Final(observed[Len(observed) - 1]) /\ ~Terminal(observed[Len(observed) - 1])
    /\ observed[Len(observed)] = observed[Len(observed) - 1]
    /\ pc = "polling" /\ outcome = "none"

----------------------------------------------------------------------------
\* the run the task holds: the one trigger_dag returned, or the one the
\* DagRunAlreadyExists carried
ChildRun == IF created # {} THEN CHOOSE c \in created : TRUE ELSE raised

\* the task chose the deferred wait
DeferredWaitEntered ==
    TriggerSucceeded /\ op.wait_for_completion /\ op.defer

(* C14: with wait_for_completion and deferrable, execute defers exactly     *)
(* once, after both pushes, with one trigger naming trigger_dag_id, the     *)
(* states allowed_states + failed_states, the child run's logical date as   *)
(* the only date, and poke_interval.  The task never sleeps or refreshes,   *)
(* and until execute_complete runs it has read no state and has no outcome. *)
DeferredHandOff ==
    DeferredWaitEntered =>
        /\ watch = << [dag_id |-> op.trigger_dag_id,
                       states |-> op.allowed_states \cup op.failed_states,
                       execution_dates |-> <<ChildRun.logical_date>>,
                       poll_interval |-> op.poke_interval] >>
        /\ Cardinality(Calls("defer")) = 1
        /\ \A i \in Calls("xcom_push") : \A j \in Calls("defer") : i < j
        /\ Calls("sleep") = {} /\ Calls("refresh_from_db") = {}
        /\ pc \in {"deferred", "resumed", "done"}
        /\ pc \in {"deferred", "resumed"} =>
              /\ outcome = "none"
              /\ state = "none"
              /\ Calls("select") = {}
              /\ trace[Len(trace)] = "defer"
        /\ pc = "deferred" => event = NoEvent
        /\ pc = "resumed" => event.execution_dates = watch[1].execution_dates

\* deferred on a reused run; the trigger has checked twice, no event yet
DeferredHandOffWitness ==
    /\ DeferredWaitEntered
    /\ Conflict
    /\ raised.logical_date # parsed_logical_date
    /\ pc = "deferred"
    /\ Len(observed) = 2
    /\ outcome = "none"

----------------------------------------------------------------------------
\* C15 as the spec words it: the two writes go under the keys
\* triggered_logical_date_iso and triggered_run_id.
SideChannelKeysAsClaimed ==
    TriggerSucceeded =>
        xcom = << <<"triggered_logical_date_iso", IsoFormat(ChildRun.logical_date)>>,
                  <<"triggered_run_id", ChildRun.run_id>> >>

(* C15: a task whose trigger succeeded has made exactly two XCom pushes:    *)
(* key trigger_logical_date_iso with the isoformat of the child run's       *)
(* logical date, then key trigger_run_id with the child run's run id; a     *)
(* task whose trigger did not succeed has pushed nothing.                   *)
SideChannelWrites ==
    /\ TriggerSucceeded =>
          xcom = << <<"trigger_logical_date_iso", IsoFormat(ChildRun.logical_date)>>,
                    <<"trigger_run_id", ChildRun.run_id>> >>
    /\ ~TriggerSucceeded => xcom = <<>>

\* a new run with a generated run id, published under the two keys
SideChannelWritesWitness ==
    /\ TriggerSucceeded
    /\ created # {}
    /\ ChildRun.run_id.kind = "manual"
    /\ Len(xcom) = 2
    /\ xcom[1][1] = "trigger_logical_date_iso" /\ xcom[1][2] = IsoFormat(parsed_logical_date)
    /\ xcom[2][1] = "trigger_run_id" /\ xcom[2][2] = run_id

----------------------------------------------------------------------------
\* what trigger_dag stored of a run besides its state
Parameters(r) ==
    [dag_id |-> r.dag_id, run_id |-> r.run_id, logical_date |-> r.logical_date,
     conf |-> r.conf]

(* C16: when execute meets a DagRunAlreadyExists with reset_dag_run, every  *)
(* run of the table keeps its run id, logical date and conf, whatever conf  *)
(* the operator was given, and no run is added or removed.  With the        *)
(* DagModel row found the reused run goes back to queued and every other    *)
(* run keeps its state; without the row the table is untouched.             *)
ResetKeepsParameters ==
    [][ (pc = "execute" /\ pc' # "execute" /\ raised' # NoRun /\ op.reset_dag_run) =>
            /\ { Parameters(r) : r \in store' } = { Parameters(r) : r \in store }
            /\ Cardinality(store') = Cardinality(store)
            /\ dag_model' = "row" =>
                  \A r \in store :
                      IF Identity(r) = raised'
                      THEN [r EXCEPT !.state = QUEUED] \in store'
                      ELSE r \in store'
            /\ dag_model' = "none" => store' = store ]_vars

\* a run was reused by an operator whose conf is not the run's
ResetKeepsParametersWitness ==
    /\ ResetWithDefinition
    /\ pc = "done"
    /\ op.conf = "dict"
    /\ \E r \in store : Identity(r) = raised /\ r.conf = "none" /\ r.state = QUEUED
    /\ \E r \in store : Identity(r) # raised /\ r.state = SUCCESS

----------------------------------------------------------------------------
\* the waiter read a state listed in allowed_states and in failed_states
OverlapRead == WaiterRead /\ state \in op.allowed_states \cap op.failed_states

(* C17: when the state the waiter read is in both allowed_states and        *)
(* failed_states the task ends in Failure, in the poll loop and in          *)
(* execute_complete alike: each tests failed_states first, so either wait   *)
(* run on that state alone gives Failure.                                   *)
OverlapFailsInBothModes ==
    OverlapRead =>
        /\ pc = "done"
        /\ outcome = "Failure"
        /\ op.defer <=> Calls("select") # {}
        /\ ~op.defer <=> Calls("refresh_from_db") # {}
        /\ PollVerdict(state, op) = "Failure"
        /\ ResumeVerdict(state, op) = "Failure"
        /\ BlockingWait(<<state>>, op) = "Failure"
        /\ DeferredWait(<<state>>, op) = "Failure"

\* execute_complete re-fetched a state listed in both
OverlapFailsInBothModesWitness ==
    /\ OverlapRead
    /\ op.defer
    /\ Calls("select") # {}
    /\ state = SUCCESS
    /\ outcome = "Failure"

----------------------------------------------------------------------------
\* the run the poll loop refreshes, as the table has it now
Polled == CHOOSE r \in store : r.dag_id = dag_run.dag_id /\ r.run_id = dag_run.run_id

\* the task is in the poll loop and its run is in a state that ends the loop
Settled == pc = "polling" /\ Terminal(Polled.state)

\* the task has ended in Success or Failure
Terminated == pc = "done" /\ outcome \in {"Success", "Failure"}

(* C18: in blocking mode, with the loop running on, a task whose run is in  *)
(* a state of allowed_states or failed_states either ends in Success or     *)
(* Failure or sees the run leave those states; so a run that enters them    *)
(* and stays ends the task.  And while every recorded read is outside both  *)
(* lists the task is still in the loop, with no outcome.                    *)
BlockingWaitTerminates ==
    /\ Settled ~> (Terminated \/ (pc = "polling" /\ ~Terminal(Polled.state)))
    /\ [](( BlockingWaitEntered /\ \A i \in 1..Len(observed) : ~Terminal(observed[i]) ) =>
              (pc = "polling" /\ outcome = "none"))

\* the loop ended on its last recorded read after reads outside both lists
BlockingWaitTerminatesWitness ==
    /\ BlockingWaitEntered
    /\ Terminated
    /\ Len(observed) = MaxPolls
    /\ \A i \in 1..(MaxPolls - 1) : ~Terminal(observed[i])
    /\ Terminal(observed[MaxPolls])

----------------------------------------------------------------------------
\* the operator __init__ makes of the two state-list arguments
WithStateArgs(allowed, failed) ==
    NewOperator(NoRunId, "none", NoDate, FALSE, FALSE, allowed, failed, FALSE, FALSE)

\* the list __init__ is to store for an argument
Effective(arg, default) ==
    IF ~arg.given \/ arg.states = {} THEN default ELSE arg.states

(* C19: __init__ stores non-empty allowed_states and failed_states for      *)
(* every argument: [success] for an allowed_states of None or [], [failed]  *)
(* for a failed_states of None or [], the given list otherwise.  The        *)
(* operator every task runs with has both lists non-empty, and no step of   *)
(* execute, of the poll loop or of execute_complete changes them.           *)
StateListsNonEmptyAndFixed ==
    /\ [](\A a \in AllowedArgs, f \in FailedArgs :
            LET o == WithStateArgs(a, f) IN
            /\ o.allowed_states # {} /\ o.failed_states # {}
            /\ o.allowed_states = Effective(a, {SUCCESS})
            /\ o.failed_states = Effective(f, {FAILED}))
    /\ [](op.allowed_states # {} /\ op.failed_states # {})
    /\ [][ (pc = "idle" /\ pc' = "execute") =>
              (\E a \in AllowedArgs, f \in FailedArgs :
                  /\ op'.allowed_states = Effective(a, {SUCCESS})
                  /\ op'.failed_states = Effective(f, {FAILED})) ]_vars
    /\ [][ (pc \in {"execute", "polling", "deferred", "resumed"}) =>
              (/\ op'.allowed_states = op.allowed_states
               /\ op'.failed_states = op.failed_states) ]_vars

\* execute and execute_complete have run on an operator with the default lists
StateListsNonEmptyAndFixedWitness ==
    /\ pc = "done"
    /\ Calls("select") # {}
    /\ op.allowed_states = {SUCCESS}
    /\ op.failed_states = {FAILED}
    /\ state = FAILED

----------------------------------------------------------------------------
(* C20: whatever the task publishes, watches or refreshes is the run it     *)
(* holds: the run trigger_dag returned, or on the reset path the run the    *)
(* DagRunAlreadyExists carried.  The two XCom values are that run's logical *)
(* date and run id, the trigger's only date is that run's logical date, and *)
(* dag_run is that run after every refresh and after the re-fetch, also     *)
(* when the run id or date resolved from the operator's arguments differ.   *)
IdentityIsTheChildRuns ==
    TriggerSucceeded =>
        /\ \E r \in store : Identity(r) = ChildRun
        /\ created # {} =>
              /\ raised = NoRun
              /\ ChildRun.run_id = run_id
              /\ ChildRun.logical_date = parsed_logical_date
        /\ created = {} => ChildRun = raised
        /\ Len(xcom) = 2
        /\ xcom[1][2] = IsoFormat(ChildRun.logical_date)
        /\ xcom[2][2] = ChildRun.run_id
        /\ watch # <<>> => watch[1].execution_dates = <<ChildRun.logical_date>>
        /\ event # NoEvent => event.execution_dates = <<ChildRun.logical_date>>
        /\ dag_run = ChildRun

\* a deferred wait on a reused run whose logical date is not the operator's
IdentityIsTheChildRunsWitness ==
    /\ TriggerSucceeded
    /\ Conflict
    /\ op.logical_date # NoDate
    /\ raised.logical_date # op.logical_date
    /\ watch # <<>>
    /\ watch[1].execution_dates = <<raised.logical_date>>
    /\ xcom[1][2] # IsoFormat(parsed_logical_date)
    /\ Calls("select") # {}
    /\ dag_run = raised

====
